---- MODULE Spec2Model ----
(***************************************************************************)
(* State-machine model of the Mattermost Spotify plugin's server side:     *)
(* the key-value store layer (kvstore.Impl), the slash-command operations  *)
(* StoreUserEmail / ClearUserData, the OAuth callback and the status       *)
(* endpoint with its resolution (fetchStatus).                             *)
(*                                                                         *)
(* Every handler is one action.  A handler is written as an operator that  *)
(* threads a context record c = [kv, tr] through its calls: kv is the      *)
(* plugin key-value store, tr the sequence of events the handler produced  *)
(* (store reads/writes, log records, upstream calls), in program order.    *)
(***************************************************************************)
EXTENDS Integers, Sequences, FiniteSets, TLC

VARIABLES
    kv,     \* the plugin key-value store: key -> [data, exp]
    auth,   \* p.auth: None, or Some(the configuration it was built from)
    configuration,  \* p.configuration
    now,    \* wall clock, in seconds
    op,     \* the last operation and its arguments
    ret,    \* what the last operation returned (error text or HTTP response)
    trace,  \* the events of the last operation, in program order
    inflight    \* the requests being served concurrently, each between two
                \* of its store calls

vars == <<kv, auth, configuration, now, op, ret, trace, inflight>>

----------------------------------------------------------------------------
(* Universe of identifiers.  "" is the empty string: Go's zero value, which *)
(* the lookups return for an absent key and which an account without a      *)
(* disclosed email carries in cu.Email.                                     *)

Users == {"u1", "u2"}
Emails == {"a@x", "b@x"}
UserIds == Users \cup {""}
EmailIds == Emails \cup {""}

\* At most this many key-value calls of one handler fail.
MaxFaults == 1

\* The clock: seconds since the start, advanced in steps of TickStep.
MaxNow == 1000
TickStep == 450


----------------------------------------------------------------------------
(* Keys.  A key is <<prefix, id>>, the Go string prefix + id.               *)

EmailKey(email) == <<"email-", email>>
UidKey(userID) == <<"uid-", userID>>
TokenKey(userID) == <<"token-", userID>>
StatusKey(userID) == <<"cached-status-", userID>>
ContextKey(type, id) == <<"context-", type, id>>

(* Strings the code takes apart are sequences: a context type is its        *)
(* characters, a context URI its colon-separated segments, a name or a page *)
(* body its parts.  The empty string is the empty sequence.                 *)
Artist == <<"a", "r", "t", "i", "s", "t">>
Playlist == <<"p", "l", "a", "y", "l", "i", "s", "t">>
Album == <<"a", "l", "b", "u", "m">>
Show == <<"s", "h", "o", "w">>
Episode == <<"e", "p", "i", "s", "o", "d", "e">>
ContextTypes == {Artist, Playlist, Album, Show, Episode, <<>>}
ContextIds == {"id1"}

Keys ==
    {EmailKey(e) : e \in EmailIds} \cup {UidKey(u) : u \in UserIds}
    \cup {TokenKey(u) : u \in UserIds} \cup {StatusKey(u) : u \in UserIds}
    \cup {ContextKey(t, i) : t \in ContextTypes, i \in ContextIds}

(* Values are byte strings, modelled as sequences; <<>> is the empty byte   *)
(* string.  exp is the absolute expiry time of the entry, 0 for none.       *)
NoBytes == <<>>
Absent == [data |-> NoBytes, exp |-> 0]

\* []byte(s) and string(b) for the identifiers stored in the mapping keys.
StringToBytes(s) == IF s = "" THEN NoBytes ELSE <<s>>
BytesToString(b) == IF Len(b) = 0 THEN "" ELSE b[1]

NoErr == "nil"

----------------------------------------------------------------------------
(* Plugin.KVSet / KVGet / KVDelete, with fault injection: F is the set of   *)
(* <<call, prefix>> pairs whose call to the host fails in this handler.     *)

Ev(kind, key) == [ev |-> kind, key |-> key]

\* pluginapi KV.Set(key, value [, SetExpiry(seconds)]); ttl = 0: no expiry.
KVSet(c, key, value, ttl, F) ==
    IF <<"set", key[1]>> \in F
    THEN [kv |-> c.kv, tr |-> Append(c.tr, Ev("kvset-failed", key)), err |-> "failed to set value"]
    ELSE [kv |-> [c.kv EXCEPT ![key] =
                    [data |-> value, exp |-> IF ttl > 0 THEN now + ttl ELSE 0]],
          tr |-> Append(c.tr, Ev("kvset", key)), err |-> NoErr]

\* obj := []byte{}; KV.Get(key, &obj) writes nothing into obj for an absent
\* (or expired) key, so the caller gets the empty, non-nil slice and no error.
KVGet(c, key, F) ==
    IF <<"get", key[1]>> \in F
    THEN [kv |-> c.kv, tr |-> Append(c.tr, Ev("kvget-failed", key)),
          data |-> NoBytes, isNil |-> TRUE, err |-> "failed to get value"]
    ELSE LET e == c.kv[key]
             live == e.exp = 0 \/ now < e.exp
         IN [kv |-> c.kv, tr |-> Append(c.tr, Ev("kvget", key)),
             data |-> IF live THEN e.data ELSE NoBytes, isNil |-> FALSE, err |-> NoErr]

KVDelete(c, key, F) ==
    IF <<"delete", key[1]>> \in F
    THEN [kv |-> c.kv, tr |-> Append(c.tr, Ev("kvdelete-failed", key)), err |-> "failed to delete value"]
    ELSE [kv |-> [c.kv EXCEPT ![key] = Absent],
          tr |-> Append(c.tr, Ev("kvdelete", key)), err |-> NoErr]

Ctx(r) == [kv |-> r.kv, tr |-> r.tr]

\* Sequencing of a function body: Bind(e, LAMBDA x : rest) is "x := e; rest".
The(S) == CHOOSE v \in S : TRUE
Bind(e, K(_)) == The({K(v) : v \in {e}})

----------------------------------------------------------------------------
(* kvstore.Impl: the identity mapping.                                      *)

StoreUserEmail_NoUid(c, userID, email, F) ==
    Bind(KVSet(c, EmailKey(email), StringToBytes(userID), 0, F), LAMBDA w1 :
    [kv |-> w1.kv, tr |-> w1.tr,
     err |-> IF w1.err # NoErr THEN "failed to store email mapping" ELSE NoErr])

StoreUserEmail(c, userID, email, F) ==
    Bind(KVSet(c, EmailKey(email), StringToBytes(userID), 0, F), LAMBDA w1 :
    IF w1.err # NoErr
    THEN [kv |-> w1.kv, tr |-> w1.tr, err |-> "failed to store email mapping"]
    ELSE
    Bind(KVSet(Ctx(w1), UidKey(userID), StringToBytes(email), 0, F), LAMBDA w2 :
    IF w2.err # NoErr
    THEN [kv |-> w2.kv, tr |-> w2.tr, err |-> "failed to store user ID mapping"]
    ELSE [kv |-> w2.kv, tr |-> w2.tr, err |-> NoErr]))

GetUserIDByEmail(c, email, F) ==
    Bind(KVGet(c, EmailKey(email), F), LAMBDA g :
    IF g.err # NoErr
    THEN [kv |-> g.kv, tr |-> g.tr, val |-> "", err |-> "failed to get user ID by email"]
    ELSE IF g.isNil
    THEN [kv |-> g.kv, tr |-> g.tr, val |-> "", err |-> "no user ID found for email"]
    ELSE [kv |-> g.kv, tr |-> g.tr, val |-> BytesToString(g.data), err |-> NoErr])

GetEmailByUserID(c, userID, F) ==
    Bind(KVGet(c, UidKey(userID), F), LAMBDA g :
    IF g.err # NoErr
    THEN [kv |-> g.kv, tr |-> g.tr, val |-> "", err |-> "failed to get email by user ID"]
    ELSE IF g.isNil
    THEN [kv |-> g.kv, tr |-> g.tr, val |-> "", err |-> "no email found for user ID"]
    ELSE [kv |-> g.kv, tr |-> g.tr, val |-> BytesToString(g.data), err |-> NoErr])

\* Every delete's error is discarded (_ =) and the function returns nil.
ClearUserData(c, userID, F) ==
    Bind(GetEmailByUserID(c, userID, F), LAMBDA g :
    Bind(IF g.err = NoErr /\ g.val # ""
         THEN Ctx(KVDelete(Ctx(g), EmailKey(g.val), F))
         ELSE Ctx(g), LAMBDA d1 :
    Bind(KVDelete(d1, UidKey(userID), F), LAMBDA d2 :
    Bind(KVDelete(Ctx(d2), TokenKey(userID), F), LAMBDA d3 :
    Bind(KVDelete(Ctx(d3), StatusKey(userID), F), LAMBDA d4 :
    [kv |-> d4.kv, tr |-> d4.tr, err |-> NoErr])))))

----------------------------------------------------------------------------
(* kvstore.Impl: OAuth tokens.  A token is [acct, gen, exp]: the upstream   *)
(* account it was issued for, how often it has been refreshed (acct and gen *)
(* together stand for the secret AccessToken / RefreshToken strings) and    *)
(* its Expiry.  A Go nil pointer is None, a non-nil one Some(x).            *)

None == <<>>
Some(x) == <<x>>

Token(acct, gen, exp) == [acct |-> acct, gen |-> gen, exp |-> exp]

\* json.Marshal / json.Unmarshal of oauth2.Token: the exported fields.
MarshalToken(t) == <<"access:", t.acct, t.gen, "refresh:", t.acct, t.gen, "expiry:", t.exp>>
UnmarshalToken(b) == Token(b[2], b[3], b[8])

\* LogInfo / LogError.  secret is what the record carries of token material.
Log(c, msg, secret) ==
    [kv |-> c.kv, tr |-> Append(c.tr, [ev |-> "log", msg |-> msg, secret |-> secret])]

\* a StoreToken that takes a nil token as "remove the token"
StoreToken_NilDeletes(c, userID, token, F) ==
    IF token = None
    THEN Bind(KVDelete(c, TokenKey(userID), F), LAMBDA d :
         [kv |-> d.kv, tr |-> d.tr, err |-> NoErr])
    ELSE
    Bind(KVSet(c, TokenKey(userID), MarshalToken(token[1]), 0, F), LAMBDA w :
    [kv |-> w.kv, tr |-> w.tr,
     err |-> IF w.err # NoErr THEN "failed to store token" ELSE NoErr])

\* a StoreToken that also drops the user's cached status
StoreToken_Invalidate(c, userID, token, F) ==
    IF token = None
    THEN [kv |-> c.kv, tr |-> c.tr, err |-> "cannot store nil token"]
    ELSE
    Bind(KVSet(c, TokenKey(userID), MarshalToken(token[1]), 0, F), LAMBDA w :
    Bind(KVDelete(Ctx(w), StatusKey(userID), F), LAMBDA d :
    [kv |-> d.kv, tr |-> d.tr,
     err |-> IF w.err # NoErr THEN "failed to store token" ELSE NoErr]))

StoreToken(c, userID, token, F) ==
    IF token = None
    THEN [kv |-> c.kv, tr |-> c.tr, err |-> "cannot store nil token"]
    ELSE
    Bind(KVSet(c, TokenKey(userID), MarshalToken(token[1]), 0, F), LAMBDA w :
    [kv |-> w.kv, tr |-> w.tr,
     err |-> IF w.err # NoErr THEN "failed to store token" ELSE NoErr])

\* a GetToken that reports a failed read as "no token"
GetToken_NoErr(c, userID, F) ==
    Bind(KVGet(Log(c, "Getting token for user", None), TokenKey(userID), F), LAMBDA g :
    IF g.err # NoErr \/ g.isNil \/ Len(g.data) = 0
    THEN [kv |-> g.kv, tr |-> g.tr, tok |-> None, err |-> NoErr]
    ELSE [kv |-> g.kv, tr |-> g.tr, tok |-> Some(UnmarshalToken(g.data)), err |-> NoErr])

GetToken(c, userID, F) ==
    Bind(KVGet(Log(c, "Getting token for user", None), TokenKey(userID), F), LAMBDA g :
    IF g.err # NoErr \/ g.isNil
    THEN \* errors.Wrap(nil, ...) is nil
         [kv |-> g.kv, tr |-> g.tr, tok |-> None,
          err |-> IF g.err # NoErr THEN "failed to get token" ELSE NoErr]
    ELSE
    Bind(Log(Ctx(g), "Got token for user", g.data), LAMBDA l1 :
    IF Len(g.data) = 0
    THEN [kv |-> l1.kv, tr |-> l1.tr, tok |-> None, err |-> NoErr]
    ELSE
    Bind(Log(Log(l1, "Unmarshalling token for user", g.data),
             "Unmarshalled token for user", g.data), LAMBDA l3 :
    [kv |-> l3.kv, tr |-> l3.tr, tok |-> Some(UnmarshalToken(g.data)), err |-> NoErr])))

----------------------------------------------------------------------------
(* kvstore.Impl: the status cache.                                          *)

Status(conn, playing, type, url, name) ==
    [IsConnected |-> conn, IsPlaying |-> playing, PlaybackType |-> type,
     PlaybackURL |-> url, PlaybackName |-> name]

\* json.Marshal / json.Unmarshal of kvstore.Status
MarshalStatus(st) ==
    <<"IsConnected:", st.IsConnected, "IsPlaying:", st.IsPlaying,
      "PlaybackType:", st.PlaybackType, "PlaybackURL:", st.PlaybackURL,
      "PlaybackName:", st.PlaybackName>>
UnmarshalStatus(b) == Status(b[2], b[4], b[6], b[8], b[10])

\* The configured cache duration; 15 minutes unless changed.
DefaultCacheMinutes == 15
GetStatusCacheDurationMinutes == DefaultCacheMinutes
SecondsPerMinute == 60

\* a StoreCacheStatus that sets the entry without an expiry
StoreCacheStatus_NoExpiry(c, userID, status, F) ==
    IF status = None
    THEN Bind(KVDelete(c, StatusKey(userID), F), LAMBDA d :
         [kv |-> d.kv, tr |-> d.tr,
          err |-> IF d.err # NoErr THEN "failed to delete cached status" ELSE NoErr])
    ELSE Bind(KVSet(c, StatusKey(userID), MarshalStatus(status[1]), 0, F), LAMBDA w :
         [kv |-> w.kv, tr |-> w.tr,
          err |-> IF w.err # NoErr THEN "failed to cache status" ELSE NoErr])

StoreCacheStatus(c, userID, status, F) ==
    IF status = None
    THEN Bind(KVDelete(c, StatusKey(userID), F), LAMBDA d :
         [kv |-> d.kv, tr |-> d.tr,
          err |-> IF d.err # NoErr THEN "failed to delete cached status" ELSE NoErr])
    ELSE Bind(GetStatusCacheDurationMinutes * SecondsPerMinute, LAMBDA expirationSeconds :
         Bind(KVSet(c, StatusKey(userID), MarshalStatus(status[1]), expirationSeconds, F),
              LAMBDA w :
         [kv |-> w.kv, tr |-> w.tr,
          err |-> IF w.err # NoErr THEN "failed to cache status" ELSE NoErr]))

\* a GetCachedStatus that never finds an entry
GetCachedStatus_Miss(c, userID, F) ==
    Bind(KVGet(c, StatusKey(userID), F), LAMBDA g :
    [kv |-> g.kv, tr |-> g.tr, status |-> None,
     err |-> IF g.err # NoErr THEN "failed to get cached status" ELSE NoErr])

GetCachedStatus(c, userID, F) ==
    Bind(KVGet(c, StatusKey(userID), F), LAMBDA g :
    IF g.err # NoErr \/ g.isNil
    THEN [kv |-> g.kv, tr |-> g.tr, status |-> None,
          err |-> IF g.err # NoErr THEN "failed to get cached status" ELSE NoErr]
    ELSE IF Len(g.data) = 0
    THEN [kv |-> g.kv, tr |-> g.tr, status |-> None, err |-> NoErr]
    ELSE [kv |-> g.kv, tr |-> g.tr, status |-> Some(UnmarshalStatus(g.data)), err |-> NoErr])

----------------------------------------------------------------------------
(* kvstore.Impl: the context-name cache (context-<type>-<id>, no expiry).   *)

GetContextName(c, type, id, F) ==
    Bind(KVGet(c, ContextKey(type, id), F), LAMBDA g :
    IF g.err # NoErr
    THEN [kv |-> g.kv, tr |-> g.tr, name |-> <<>>, err |-> "failed to get context name"]
    ELSE [kv |-> g.kv, tr |-> g.tr, name |-> g.data, err |-> NoErr])

\* a StoreContextName that lets the name expire like a cached status
StoreContextName_Expiring(c, type, id, name, F) ==
    Bind(KVSet(c, ContextKey(type, id), name,
               GetStatusCacheDurationMinutes * SecondsPerMinute, F), LAMBDA w :
    [kv |-> w.kv, tr |-> w.tr,
     err |-> IF w.err # NoErr THEN "failed to store context name" ELSE NoErr])

StoreContextName(c, type, id, name, F) ==
    Bind(KVSet(c, ContextKey(type, id), name, 0, F), LAMBDA w :
    [kv |-> w.kv, tr |-> w.tr,
     err |-> IF w.err # NoErr THEN "failed to store context name" ELSE NoErr])

----------------------------------------------------------------------------
(* Plugin configuration and the Spotify authenticator.                      *)

NilConfiguration == [ClientID |-> "<nil>", ClientSecret |-> "<nil>"]
Configurations == [ClientID : {"", "id"}, ClientSecret : {"", "secret"}]

\* p.auth is only ever assigned when both credentials are present.
setConfiguration(a, c) ==
    [auth |-> IF c # NilConfiguration /\ c.ClientID # "" /\ c.ClientSecret # ""
              THEN Some(c) ELSE a,
     configuration |-> c]

GetSpotifyAuthURL(a) ==
    IF a = None THEN [url |-> "", err |-> "Spotify not configured"]
    ELSE [url |-> "authurl?state=123", err |-> NoErr]

----------------------------------------------------------------------------
(* HTTP responses.                                                          *)

Text(code, text) == [code |-> code, text |-> text, status |-> None]

\* a handler's result: the store and trace it leaves, and its response
Respond(c, resp) == [kv |-> c.kv, tr |-> c.tr, resp |-> resp]

----------------------------------------------------------------------------
(* Upstream (Spotify) calls made with a token.                              *)

Upstream(c, call, tok) ==
    [kv |-> c.kv, tr |-> Append(c.tr, [ev |-> "upstream", call |-> call, tok |-> tok])]

----------------------------------------------------------------------------
(* handleSpotifyCallback.  in: the request and what upstream answers.       *)
(*   state: the state form value; exchange: "ok" | "err" (auth.Token);      *)
(*   me: "ok" | "err" (CurrentUser); acct: the authenticated account's      *)
(*   email (cu.Email); expiresIn: lifetime of the issued token, seconds.    *)

handleSpotifyCallback(c, a, in, F) ==
    IF a = None
    THEN Respond(Log(c, "Spotify not configured", None), Text(500, "Spotify not configured"))
    ELSE IF in.state # "123"
    THEN Respond(Log(c, "State mismatch", None), Text(404, "404 page not found"))
    ELSE IF in.exchange # "ok"
    THEN Respond(Log(Upstream(c, "Token", None), "Failed to get token", None),
                 Text(403, "Couldn't get token"))
    ELSE
    Bind(Token(in.acct, 0, now + in.expiresIn), LAMBDA tok :
    Bind(Upstream(Upstream(c, "Token", None), "CurrentUser", Some(tok)), LAMBDA x :
    IF in.me # "ok"
    THEN Respond(Log(x, "Failed to get current user", None), Text(403, "Couldn't get user"))
    ELSE
    Bind(GetUserIDByEmail(x, in.acct, F), LAMBDA u :
    IF u.err # NoErr
    THEN Respond(Log(Ctx(u), "No user ID found for email", None),
                 Text(403, "no registration found for"))
    ELSE
    Bind(GetEmailByUserID(Ctx(u), u.val, F), LAMBDA e :
    IF e.err # NoErr \/ e.val # in.acct
    THEN Respond(Log(Ctx(e), "Invalid user mapping", None), Text(403, "invalid user mapping"))
    ELSE
    Bind(StoreToken(Ctx(e), u.val, Some(tok), F), LAMBDA w :
    IF w.err # NoErr
    THEN Respond(Log(Ctx(w), "Failed to store token", None),
                 Text(500, "failed to store token"))
    ELSE Respond(Log(Ctx(w), "Successfully handled Spotify callback", None),
                 Text(200, "Successfully connected to Spotify!")))))))

----------------------------------------------------------------------------
(* fetchStatus.  up is what upstream answers during this resolution:        *)
(*   refresh: "ok" | "err"          (auth.RefreshToken)                     *)
(*   player:  "err" | "idle" | "playing"        (client.PlayerState)        *)
(*   type, uri, url: PlaybackContext.Type, .URI split at ":", and           *)
(*                   .ExternalURLs["spotify"]                               *)
(*   meta:    "ok" | "notfound" | "err"   (GetArtist/Playlist/Album/Show)   *)
(*   name, artist: the names in the metadata answer                         *)
(*   page:    None (http.Get failed) or Some(body)                          *)

RefreshWindow == 330        \* "5m30s", in seconds

\* Lifetimes of the tokens the provider issues, in seconds.
ShortLived == 120
LongLived == 3600
ExpiresIn == {ShortLived, LongLived}

HttpGet(c, url) == [kv |-> c.kv, tr |-> Append(c.tr, [ev |-> "http.Get", url |-> url])]

\* strings.Index, 0-based, -1 when absent
Index(body, part) ==
    IF \E i \in 1..Len(body) : body[i] = part
    THEN (CHOOSE i \in 1..Len(body) :
              body[i] = part /\ \A j \in 1..(i - 1) : body[j] # part) - 1
    ELSE -1

\* a TrimSuffix that leaves the suffix in place
TrimSuffix_Keep(str, suffix) == str

TrimSuffix(str, suffix) ==
    IF Len(str) > 0 /\ str[Len(str)] = suffix THEN SubSeq(str, 1, Len(str) - 1) ELSE str

\* the <title> contents of a fetched page, "" when there is none
PageTitle(body) ==
    Bind(Index(body, "<title>"), LAMBDA titleStart :
    Bind(Index(body, "</title>"), LAMBDA titleEnd :
    IF titleStart >= 0 /\ titleEnd > titleStart
    THEN TrimSuffix(SubSeq(body, titleStart + 2, titleEnd), " | Spotify Playlist")
    ELSE <<>>))

ToUpper(ch) ==
    CASE ch = "a" -> "A" [] ch = "p" -> "P" [] ch = "s" -> "S" [] ch = "e" -> "E"
      [] OTHER -> ch

\* the type as reported by upstream, not capitalised
Capitalize_Lower(type) == type

\* strings.ToUpper(string(Type[0])) + Type[1:]
Capitalize(type) == <<ToUpper(type[1])>> \o Tail(type)

Done(c, status, err) == [kv |-> c.kv, tr |-> c.tr, status |-> status, err |-> err, panic |-> FALSE]
Panic(c) == [kv |-> c.kv, tr |-> c.tr, status |-> None, err |-> NoErr, panic |-> TRUE]

\* the outcome of the switch over the context type
Named(c, name, err) == [c |-> c, name |-> name, err |-> err]

\* a metadata lookup that asks upstream a second time
FetchContextName_Twice(c, tok, up) ==
    Named(Upstream(Upstream(c, "GetPlaylist", Some(tok)), "GetPlaylist", Some(tok)),
          IF up.meta = "ok" THEN up.name ELSE <<>>,
          IF up.meta = "ok" THEN NoErr ELSE "failed to get playlist")

\* a playlist lookup that falls back to the page after any failure
FetchContextName_AnyFailure(c, tok, up) ==
    Bind(Upstream(c, "GetPlaylist", Some(tok)), LAMBDA m :
    IF up.meta # "ok"
    THEN Named(HttpGet(m, up.url),
               IF up.page # None THEN PageTitle(up.page[1]) ELSE <<>>, NoErr)
    ELSE Named(m, up.name, NoErr))

\* the switch over the context type on a context-name cache miss:
\* err # NoErr is the early return of fetchStatus
FetchContextName(c, tok, up) ==
    IF up.type = Artist
    THEN Bind(Upstream(c, "GetArtist", Some(tok)), LAMBDA m :
         IF up.meta # "ok" THEN Named(m, <<>>, "failed to get artist")
         ELSE Named(m, up.name, NoErr))
    ELSE IF up.type = Playlist
    THEN Bind(Upstream(c, "GetPlaylist", Some(tok)), LAMBDA m :
         IF up.meta = "notfound" /\ up.url # ""
         THEN Named(HttpGet(m, up.url),
                    IF up.page # None THEN PageTitle(up.page[1]) ELSE <<>>, NoErr)
         ELSE IF up.meta # "ok"
         THEN Named(m, <<>>, "failed to get playlist")
         ELSE Named(m, up.name, NoErr))
    ELSE IF up.type = Album
    THEN Bind(Upstream(c, "GetAlbum", Some(tok)), LAMBDA m :
         IF up.meta # "ok" THEN Named(m, <<>>, "failed to get album")
         ELSE Named(m, up.name \o <<" - ">> \o up.artist, NoErr))
    ELSE IF up.type = Show
    THEN Bind(Upstream(c, "GetShow", Some(tok)), LAMBDA m :
         IF up.meta # "ok" THEN Named(m, <<>>, "failed to get show")
         ELSE Named(m, up.name, NoErr))
    ELSE Named(c, <<>>, NoErr)

\* the context name is cached when one was fetched; a failure is only logged
CacheFetchedName(c, type, ID, name, F) ==
    IF name # <<>>
    THEN Bind(StoreContextName(c, type, ID, name, F), LAMBDA st :
         IF st.err # NoErr
         THEN Log(Ctx(st), "Failed to cache context name", None)
         ELSE Ctx(st))
    ELSE c

\* a resolution that asks upstream for the name whatever the cache holds
ResolvePlaying_Refetch(c, userID, tok, up, F) ==
    IF Len(up.uri) < 3 \/ up.type = <<>> THEN Panic(c) ELSE
    Bind(up.uri[3], LAMBDA ID :
    Bind(GetContextName(c, up.type, ID, F), LAMBDA g :
    Bind(FetchContextName(Ctx(g), tok, up), LAMBDA f :
    IF f.err # NoErr
    THEN Done(f.c, None, f.err)
    ELSE Done(CacheFetchedName(f.c, up.type, ID, f.name, F),
              Some(Status(TRUE, TRUE, Capitalize(up.type), up.url, f.name)), NoErr))))

\* a resolution that gives up when the fetched name cannot be cached
ResolvePlaying_Strict(c, userID, tok, up, F) ==
    IF Len(up.uri) < 3 \/ up.type = <<>> THEN Panic(c) ELSE
    Bind(up.uri[3], LAMBDA ID :
    Bind(GetContextName(c, up.type, ID, F), LAMBDA g :
    Bind(IF g.name = <<>> THEN FetchContextName(Ctx(g), tok, up)
         ELSE Named(Ctx(g), g.name, NoErr), LAMBDA f :
    Bind(IF g.name = <<>> THEN StoreContextName(f.c, up.type, ID, f.name, F)
         ELSE [kv |-> f.c.kv, tr |-> f.c.tr, err |-> NoErr], LAMBDA st :
    IF f.err # NoErr \/ st.err # NoErr
    THEN Done(Ctx(st), None, "failed to cache context name")
    ELSE Done(Ctx(st), Some(Status(TRUE, TRUE, Capitalize(up.type), up.url, f.name)),
              NoErr)))))

\* fetchStatus from the PlayerState answer "playing" on
ResolvePlaying(c, userID, tok, up, F) ==
    IF Len(up.uri) < 3
    THEN Panic(c)       \* strings.Split(URI, ":")[2]: index out of range
    ELSE
    Bind(up.uri[3], LAMBDA ID :
    Bind(GetContextName(c, up.type, ID, F), LAMBDA g :
    IF g.err # NoErr
    THEN Done(Ctx(g), None, "failed to get cached context name")
    ELSE
    Bind(IF g.name = <<>> THEN FetchContextName(Ctx(g), tok, up)
         ELSE Named(Ctx(g), g.name, NoErr), LAMBDA f :
    IF f.err # NoErr
    THEN Done(f.c, None, f.err)
    ELSE
    Bind(IF g.name = <<>>
         THEN Log(CacheFetchedName(f.c, up.type, ID, f.name, F),
                  "Successfully fetched context name", None)
         ELSE f.c, LAMBDA l :
    IF up.type = <<>>
    THEN Panic(l)       \* Type[0] of the empty string
    ELSE Done(Log(l, "Successfully fetched status", None),
              Some(Status(TRUE, TRUE, Capitalize(up.type), up.url, f.name)),
              NoErr)))))

\* time.Until(tok.Expiry) < m, with the window reached counted as expiring
Expiring_Inclusive(tok) == tok.exp - now <= RefreshWindow

\* time.Until(tok.Expiry) < m
Expiring(tok) == tok.exp - now < RefreshWindow

\* a refresh whose failure is ignored: the resolution goes on with the old token
RefreshIfExpiring_Stale(c, userID, tok, up, F) ==
    IF Expiring(tok)
    THEN Bind(Upstream(c, "RefreshToken", Some(tok)), LAMBDA r :
         IF up.refresh # "ok"
         THEN [kv |-> r.kv, tr |-> r.tr, err |-> NoErr]
         ELSE
         Bind(StoreToken(r, userID, Some(Token(tok.acct, tok.gen + 1, now + LongLived)), F),
              LAMBDA w :
         [kv |-> w.kv, tr |-> w.tr,
          err |-> IF w.err # NoErr THEN "failed to store refreshed token" ELSE NoErr]))
    ELSE [kv |-> c.kv, tr |-> c.tr, err |-> NoErr]

\* the refresh of a token that expires within the window, and its storing
RefreshIfExpiring(c, userID, tok, up, F) ==
    IF Expiring(tok)
    THEN Bind(Upstream(c, "RefreshToken", Some(tok)), LAMBDA r :
         IF up.refresh # "ok"
         THEN [kv |-> r.kv, tr |-> r.tr, err |-> "failed to refresh token"]
         ELSE
         Bind(StoreToken(r, userID, Some(Token(tok.acct, tok.gen + 1, now + LongLived)), F),
              LAMBDA w :
         [kv |-> w.kv, tr |-> w.tr,
          err |-> IF w.err # NoErr THEN "failed to store refreshed token" ELSE NoErr]))
    ELSE [kv |-> c.kv, tr |-> c.tr, err |-> NoErr]

\* &kvstore.Status{IsConnected: false}, reported as connected
NotConnected_Connected == Status(TRUE, FALSE, <<>>, "", <<>>)

\* &kvstore.Status{IsConnected: false}: the user has no token
NotConnected == Status(FALSE, FALSE, <<>>, "", <<>>)

\* &kvstore.Status{IsConnected: false, IsPlaying: false}: nothing is playing
NotPlaying == Status(FALSE, FALSE, <<>>, "", <<>>)

\* a resolution that reads the token before it looks at the authenticator
fetchStatus_TokenFirst(c, a, userID, up, F) ==
    Bind(GetToken(c, userID, F), LAMBDA t :
    Done(Ctx(t), None, IF a = None THEN "Spotify not configured" ELSE t.err))

fetchStatus(c, a, userID, up, F) ==
    IF a = None
    THEN Done(c, None, "Spotify not configured")
    ELSE
    Bind(GetToken(c, userID, F), LAMBDA t :
    IF t.err # NoErr
    THEN Done(Ctx(t), None, "error reading token for user")
    ELSE IF t.tok = None
    THEN Done(Ctx(t), Some(NotConnected), NoErr)
    ELSE
    Bind(t.tok[1], LAMBDA tok :
    Bind(RefreshIfExpiring(Ctx(t), userID, tok, up, F), LAMBDA rf :
    IF rf.err # NoErr
    THEN Done(Ctx(rf), None, rf.err)
    ELSE
    \* the client is built from tok, the token read from the store
    Bind(Upstream(Ctx(rf), "PlayerState", Some(tok)), LAMBDA p :
    IF up.player = "err"
    THEN Done(p, None, "failed to get player state")
    ELSE IF up.player = "idle"
    THEN Done(Log(p, "Successfully fetched status - no token", None),
              Some(NotPlaying), NoErr)
    ELSE ResolvePlaying(p, userID, tok, up, F)))))

----------------------------------------------------------------------------
(* handleStatus: GET /api/v1/status/{userId}.  r is the request: header is  *)
(* its Mattermost-User-ID header, path its {userId} path parameter.         *)

Json(code, status) == [code |-> code, text |-> "", status |-> status]

RequestUserID_Path(r) == r.path

RequestUserID(r) == r.header

handleStatus(c, a, r, up, F) ==
    Bind(RequestUserID(r), LAMBDA userID :
    Bind(GetCachedStatus(c, userID, F), LAMBDA g :
    IF g.err # NoErr
    THEN Respond(Log(Ctx(g), "Failed to get cached status", None),
                 Text(500, "failed to get cached status"))
    ELSE IF g.status # None
    THEN Respond(Log(Ctx(g), "Successfully returned status", None), Json(200, g.status))
    ELSE
    Bind(fetchStatus(Ctx(g), a, userID, up, F), LAMBDA f :
    IF f.panic
    THEN Respond(Ctx(f), Text(0, "panic"))
    ELSE IF f.err # NoErr
    THEN Respond(Log(Ctx(f), "Failed to fetch status", None),
                 Text(500, "failed to fetch status"))
    ELSE
    Bind(StoreCacheStatus(Ctx(f), userID, f.status, F), LAMBDA w :
    IF w.err # NoErr
    THEN Respond(Log(Ctx(w), "Failed to cache status", None),
                 Text(500, "failed to cache status"))
    ELSE Respond(Log(Ctx(w), "Successfully returned status", None),
                 Json(200, f.status))))))

----------------------------------------------------------------------------
(* Impl.executeSpotifyCommand: /spotify enable <email> and /spotify disable *)

executeSpotifyCommand(c, a, userID, parts, F) ==
    IF parts[1] = "enable"
    THEN Bind(StoreUserEmail(c, userID, parts[2], F), LAMBDA r :
         Bind(GetSpotifyAuthURL(a), LAMBDA url :
         [kv |-> r.kv, tr |-> r.tr, err |-> r.err,
          text |-> IF r.err # NoErr THEN "Failed to store email"
                   ELSE IF url.err # NoErr THEN "Failed to generate auth URL"
                   ELSE "Complete the authorization process"]))
    ELSE IF parts[1] = "disable"
    THEN Bind(ClearUserData(c, userID, F), LAMBDA r :
         [kv |-> r.kv, tr |-> r.tr, err |-> r.err,
          text |-> IF r.err # NoErr THEN "Failed to disable"
                   ELSE "Disabled Spotify integration!"])
    ELSE [kv |-> c.kv, tr |-> c.tr, err |-> NoErr,
          text |-> "Only enable/disable commands are supported!"]

----------------------------------------------------------------------------
(* Inputs.                                                                  *)

Faults(points) == {F \in SUBSET points : Cardinality(F) <= MaxFaults}

RegisterFaults == {<<"set", "email-">>, <<"set", "uid-">>}
ClearFaults ==
    {<<"get", "uid-">>, <<"delete", "email-">>, <<"delete", "uid-">>,
     <<"delete", "token-">>, <<"delete", "cached-status-">>}
LookupFaults == {<<"get", "email-">>, <<"get", "uid-">>}
CallbackFaults == {<<"get", "email-">>, <<"get", "uid-">>, <<"set", "token-">>}

\* A callback request: all well, or failing at one of the three early steps.
CallbackOutcomes ==
    {[state |-> "123", exchange |-> "ok", me |-> "ok"],
     [state |-> "bad", exchange |-> "ok", me |-> "ok"],
     [state |-> "123", exchange |-> "err", me |-> "ok"],
     [state |-> "123", exchange |-> "ok", me |-> "err"]}

CallbackInput(o, acct, expiresIn) ==
    [state |-> o.state, exchange |-> o.exchange, me |-> o.me,
     acct |-> acct, expiresIn |-> expiresIn]

StatusFaults ==
    {<<"get", "cached-status-">>, <<"get", "token-">>, <<"set", "token-">>,
     <<"get", "context-">>, <<"set", "context-">>, <<"set", "cached-status-">>}

\* A status request: who asks (header) and whose status is asked for (path).
Requests == [header : Users, path : Users]

\* Upstream answers: a user playing playlist id1, whose metadata call succeeds.
PlayingPlaylist ==
    [refresh |-> "ok", player |-> "playing", type |-> Playlist,
     uri |-> <<"spotify", "playlist", "id1">>, url |-> "https://open.spotify.com/playlist/id1",
     meta |-> "ok", name |-> <<"Focus Mix">>, artist |-> <<>>, page |-> None]

Scenarios ==
    {PlayingPlaylist,
     [PlayingPlaylist EXCEPT !.meta = "err"],
     [PlayingPlaylist EXCEPT !.player = "idle"],
     [PlayingPlaylist EXCEPT !.player = "err"],
     [PlayingPlaylist EXCEPT !.refresh = "err"]}

\* The keys whose entry differs between two stores.
Changed(before, after) == {k \in Keys : before[k] # after[k]}

Start == [kv |-> kv, tr |-> <<>>]

----------------------------------------------------------------------------
(* The state machine.                                                       *)

\* no request in flight
Idle ==
    [base |-> [k \in Keys |-> Absent], procs |-> <<>>, last |-> [k \in Keys |-> 0],
     launched |-> 0]

Init ==
    /\ inflight = Idle
    /\ kv = [k \in Keys |-> Absent]
    /\ auth = None
    /\ configuration = NilConfiguration
    /\ now = 0
    /\ op = [name |-> "init"]
    /\ ret = [err |-> NoErr]
    /\ trace = <<>>

\* OnConfigurationChange: load the configuration and install it.
OnConfigurationChange(c) ==
    \E r \in {setConfiguration(auth, c)} :
        /\ auth' = r.auth
        /\ configuration' = r.configuration
        /\ op' = [name |-> "OnConfigurationChange"]
        /\ ret' = [err |-> NoErr]
        /\ trace' = <<>>
        /\ UNCHANGED <<kv, now, inflight>>

\* The plugin process starts: a Plugin with its fields unset.  The store
\* belongs to the server and keeps what it held.
OnActivate ==
    /\ auth' = None
    /\ configuration' = NilConfiguration
    /\ op' = [name |-> "OnActivate"]
    /\ ret' = [err |-> NoErr]
    /\ trace' = <<>>
    /\ UNCHANGED <<kv, now, inflight>>

\* /spotify enable <email>
Register(userID, email, F) ==
    \E r \in {executeSpotifyCommand(Start, auth, userID, <<"enable", email>>, F)} :
        /\ kv' = r.kv
        /\ trace' = r.tr
        /\ ret' = [err |-> r.err, text |-> r.text]
        /\ op' = [name |-> "Register", user |-> userID, email |-> email,
                  changed |-> Changed(kv, r.kv)]
        /\ UNCHANGED <<auth, configuration, now, inflight>>

\* /spotify disable
Clear(userID, F) ==
    \E r \in {executeSpotifyCommand(Start, auth, userID, <<"disable">>, F)} :
        /\ kv' = r.kv
        /\ trace' = r.tr
        /\ ret' = [err |-> r.err, text |-> r.text]
        /\ op' = [name |-> "Clear", user |-> userID, changed |-> Changed(kv, r.kv),
                  had |-> BytesToString(kv[UidKey(userID)].data)]
        /\ UNCHANGED <<auth, configuration, now, inflight>>

\* KVStore.GetUserIDByEmail, as the store's callers see it
LookupUserByEmail(email, F) ==
    \E r \in {GetUserIDByEmail(Start, email, F)} :
        /\ trace' = r.tr
        /\ ret' = [err |-> r.err, val |-> r.val]
        /\ op' = [name |-> "LookupUserByEmail", email |-> email]
        /\ UNCHANGED <<kv, auth, configuration, now, inflight>>

\* KVStore.GetEmailByUserID, as the store's callers see it
LookupEmailByUser(userID, F) ==
    \E r \in {GetEmailByUserID(Start, userID, F)} :
        /\ trace' = r.tr
        /\ ret' = [err |-> r.err, val |-> r.val]
        /\ op' = [name |-> "LookupEmailByUser", user |-> userID]
        /\ UNCHANGED <<kv, auth, configuration, now, inflight>>

\* GET /callback
Callback(in, F) ==
    \E r \in {handleSpotifyCallback(Start, auth, in, F)} :
        /\ kv' = r.kv
        /\ trace' = r.tr
        /\ ret' = r.resp
        /\ op' = [name |-> "Callback", acct |-> in.acct, changed |-> Changed(kv, r.kv)]
        /\ UNCHANGED <<auth, configuration, now, inflight>>

\* GET /api/v1/status/{userId}
GetStatus(r, up, F) ==
    \E h \in {handleStatus(Start, auth, r, up, F)} :
        /\ kv' = h.kv
        /\ trace' = h.tr
        /\ ret' = h.resp
        /\ op' = [name |-> "Status", user |-> r.header, target |-> r.path,
                  changed |-> Changed(kv, h.kv), held |-> kv[TokenKey(r.header)].data,
                  entry |-> kv[StatusKey(r.header)], up |-> up,
                  ctx |-> IF Len(up.uri) >= 3
                          THEN kv[ContextKey(up.type, up.uri[3])].data ELSE NoBytes]
        /\ UNCHANGED <<auth, configuration, now, inflight>>

\* KVStore.StoreCacheStatus, as the store's callers see it
PutStatus(userID, status, F) ==
    \E r \in {StoreCacheStatus(Start, userID, status, F)} :
        /\ kv' = r.kv
        /\ trace' = r.tr
        /\ ret' = [err |-> r.err]
        /\ op' = [name |-> "PutStatus", user |-> userID, status |-> status,
                  changed |-> Changed(kv, r.kv)]
        /\ UNCHANGED <<auth, configuration, now, inflight>>

\* KVStore.GetToken, as the store's callers see it
LookupToken(userID, F) ==
    \E r \in {GetToken(Start, userID, F)} :
        /\ trace' = r.tr
        /\ ret' = [err |-> r.err, tok |-> r.tok]
        /\ op' = [name |-> "LookupToken", user |-> userID]
        /\ UNCHANGED <<kv, auth, configuration, now, inflight>>

\* /spotify refresh
RefreshCommand(userID) ==
    \E r \in {executeSpotifyCommand(Start, auth, userID, <<"refresh">>, {})} :
        /\ kv' = r.kv
        /\ trace' = r.tr
        /\ ret' = [err |-> r.err, text |-> r.text]
        /\ op' = [name |-> "Refresh", user |-> userID, entry |-> kv[StatusKey(userID)]]
        /\ UNCHANGED <<auth, configuration, now, inflight>>

\* KVStore.StoreToken, as the store's callers see it
PutToken(userID, token, F) ==
    \E r \in {StoreToken(Start, userID, token, F)} :
        /\ kv' = r.kv
        /\ trace' = r.tr
        /\ ret' = [err |-> r.err]
        /\ op' = [name |-> "PutToken", user |-> userID, token |-> token,
                  changed |-> Changed(kv, r.kv), held |-> kv[TokenKey(userID)].data]
        /\ UNCHANGED <<auth, configuration, now, inflight>>

\* KVStore.StoreContextName, as the store's callers see it
PutContextName(type, id, name, F) ==
    \E r \in {StoreContextName(Start, type, id, name, F)} :
        /\ kv' = r.kv
        /\ trace' = r.tr
        /\ ret' = [err |-> r.err]
        /\ op' = [name |-> "PutContextName", type |-> type, id |-> id, cname |-> name,
                  prev |-> kv[ContextKey(type, id)].data]
        /\ UNCHANGED <<auth, configuration, now, inflight>>

\* KVStore.GetContextName, as the store's callers see it
LookupContextName(type, id, F) ==
    \E r \in {GetContextName(Start, type, id, F)} :
        /\ trace' = r.tr
        /\ ret' = [err |-> r.err, name |-> r.name]
        /\ op' = [name |-> "LookupContextName", type |-> type, id |-> id]
        /\ UNCHANGED <<kv, auth, configuration, now, inflight>>

\* Time passes between two requests.
Tick(d) ==
    /\ now + d <= MaxNow
    /\ now' = now + d
    /\ op' = [name |-> "Tick"]
    /\ ret' = [err |-> NoErr]
    /\ trace' = <<>>
    /\ UNCHANGED <<kv, auth, configuration, inflight>>

----------------------------------------------------------------------------
(* Spec: two users, each with an email of their own, who register, connect, *)
(* ask for each other's status and disconnect; the store may fail during a  *)
(* status request.                                                          *)

RegPairs == {<<"u1", "a@x">>, <<"u2", "b@x">>}
AllWell == [state |-> "123", exchange |-> "ok", me |-> "ok"]

ConfigChange == \E c \in {[ClientID |-> "id", ClientSecret |-> "secret"]} : OnConfigurationChange(c)
Enable == \E p \in RegPairs : Register(p[1], p[2], {})
Disable == \E u \in Users : Clear(u, {})
Connect == \E a \in Emails, d \in ExpiresIn : Callback(CallbackInput(AllWell, a, d), {})
Poll == \E r \in Requests, up \in Scenarios, F \in Faults(StatusFaults) : GetStatus(r, up, F)

Next ==
    \/ ConfigChange
    \/ Enable
    \/ Disable
    \/ Connect
    \/ Poll

Spec == Init /\ [][Next]_vars

----------------------------------------------------------------------------
(* SpecMap: the identity mapping and the OAuth callback, with store faults. *)

MapConfigChange == \E c \in {[ClientID |-> "id", ClientSecret |-> "secret"]} : OnConfigurationChange(c)
MapRegister == \E u \in Users, e \in Emails, F \in Faults(RegisterFaults) : Register(u, e, F)
MapClear == \E u \in Users, F \in Faults(ClearFaults) : Clear(u, F)
MapLookupUser == \E e \in Emails, F \in Faults(LookupFaults) : LookupUserByEmail(e, F)
MapLookupEmail == \E u \in Users, F \in Faults(LookupFaults) : LookupEmailByUser(u, F)
MapCallback ==
    \E o \in CallbackOutcomes, a \in EmailIds, F \in Faults(CallbackFaults) :
        Callback(CallbackInput(o, a, LongLived), F)

NextMap ==
    \/ MapConfigChange
    \/ MapRegister
    \/ MapClear
    \/ MapLookupUser
    \/ MapLookupEmail
    \/ MapCallback

SpecMap == Init /\ [][NextMap]_vars

----------------------------------------------------------------------------
(* SpecReg: only successful Register and Clear calls.                       *)

RegRegister == \E u \in Users, e \in Emails : Register(u, e, {})
RegClear == \E u \in Users : Clear(u, {})

NextReg ==
    \/ RegRegister
    \/ RegClear

SpecReg == Init /\ [][NextReg]_vars

----------------------------------------------------------------------------
(* SpecTime: one user over time.  The user registers and connects with a    *)
(* token of one of three lifetimes, polls the status endpoint while the     *)
(* clock advances past the cache expiry, and uses the refresh command; the  *)
(* status cache and the token store are also driven directly.               *)

Lifetimes == {ShortLived, RefreshWindow, LongLived}

TimeConfigChange == \E c \in {[ClientID |-> "id", ClientSecret |-> "secret"]} : OnConfigurationChange(c)
TimeEnable == Register("u1", "a@x", {})
TimeConnect == \E d \in Lifetimes : Callback(CallbackInput(AllWell, "a@x", d), {})
TimePoll ==
    \E up \in Scenarios, F \in Faults(StatusFaults) :
        GetStatus([header |-> "u1", path |-> "u1"], up, F)
TimePut == \E st \in {None, Some(NotPlaying)} : PutStatus("u1", st, {})
TimeLookupToken == \E F \in Faults({<<"get", "token-">>}) : LookupToken("u1", F)
TimeRefresh == RefreshCommand("u1")
TimeTick == Tick(TickStep)

NextTime ==
    \/ TimeConfigChange
    \/ TimeEnable
    \/ TimeConnect
    \/ TimePoll
    \/ TimePut
    \/ TimeLookupToken
    \/ TimeRefresh
    \/ TimeTick

SpecTime == Init /\ [][NextTime]_vars

----------------------------------------------------------------------------
(* SpecStore: the token store and the context-name cache as their callers   *)
(* see them, over time.                                                     *)

Names == {<<"Focus Mix">>, <<"Chill Vibes">>}
Tokens == {Token("a@x", g, now + d) : g \in {0, 1}, d \in {ShortLived, LongLived}}

StorePutToken ==
    \E tok \in {None} \cup {Some(t) : t \in Tokens},
       F \in Faults({<<"set", "token-">>}) : PutToken("u1", tok, F)
StoreLookupToken == \E F \in Faults({<<"get", "token-">>}) : LookupToken("u1", F)
StorePutName ==
    \E t \in {Playlist, Album}, i \in ContextIds, n \in Names,
       F \in Faults({<<"set", "context-">>}) : PutContextName(t, i, n, F)
StoreLookupName ==
    \E t \in {Playlist, Album}, i \in ContextIds,
       F \in Faults({<<"get", "context-">>}) : LookupContextName(t, i, F)
StoreTick == Tick(TickStep)

NextStore ==
    \/ StorePutToken
    \/ StoreLookupToken
    \/ StorePutName
    \/ StoreLookupName
    \/ StoreTick

SpecStore == Init /\ [][NextStore]_vars

----------------------------------------------------------------------------
(* SpecCtx: one user whose player is in any of the playback contexts, with  *)
(* every answer of the metadata call and of the public page; the context-   *)
(* name cache may fail.                                                     *)

\* a public playlist page whose title is T followed by the known suffix
TitledPage(T) == <<"<html>", "<title>">> \o T \o <<" | Spotify Playlist", "</title>", "<body>">>
UntitledPage == <<"<html>", "<body>">>

Playing(type, meta) ==
    [PlayingPlaylist EXCEPT !.type = type, !.meta = meta, !.artist = <<"Band">>]

\* playing with no playback context: the context's type and URI are empty
NoContext == [PlayingPlaylist EXCEPT !.type = <<>>, !.uri = <<>>, !.url = ""]

Answers ==
    {Playing(t, m) : t \in {Artist, Playlist, Album, Show}, m \in {"ok", "err"}}
    \cup {Playing(t, "notfound") : t \in {Artist, Album, Show}}
    \cup {[Playing(Playlist, "notfound") EXCEPT !.url = ""]}
    \cup {[Playing(Playlist, "notfound") EXCEPT !.page = p] :
              p \in {None, Some(UntitledPage)} \cup {Some(TitledPage(T)) : T \in Names}}
    \cup {Playing(Episode, "ok"), NoContext,
          [PlayingPlaylist EXCEPT !.uri = <<"spotify">>]}
    \cup {[PlayingPlaylist EXCEPT !.player = "idle"],
          [PlayingPlaylist EXCEPT !.player = "err"],
          [PlayingPlaylist EXCEPT !.refresh = "err"]}

ContextFaults == {<<"get", "context-">>, <<"set", "context-">>}

CtxConfigChange == \E c \in {[ClientID |-> "id", ClientSecret |-> "secret"]} : OnConfigurationChange(c)
CtxEnable == Register("u1", "a@x", {})
CtxConnect == \E d \in ExpiresIn : Callback(CallbackInput(AllWell, "a@x", d), {})
CtxDisable == Clear("u1", {})
CtxPoll ==
    \E up \in Answers, F \in Faults(ContextFaults) :
        GetStatus([header |-> "u1", path |-> "u1"], up, F)

NextCtx ==
    \/ CtxConfigChange
    \/ CtxEnable
    \/ CtxConnect
    \/ CtxDisable
    \/ CtxPoll

SpecCtx == Init /\ [][NextCtx]_vars

----------------------------------------------------------------------------
(* SpecCfg: the plugin is started, and configured with and without client  *)
(* credentials, while one user registers, connects and is polled.          *)

CfgActivate == OnActivate
CfgChange == \E c \in Configurations : OnConfigurationChange(c)
CfgEnable == Register("u1", "a@x", {})
CfgConnect == \E o \in CallbackOutcomes : Callback(CallbackInput(o, "a@x", LongLived), {})
CfgDisable == Clear("u1", {})
CfgPoll == \E up \in Scenarios : GetStatus([header |-> "u1", path |-> "u1"], up, {})
CfgTick == Tick(TickStep)

NextCfg ==
    \/ CfgActivate
    \/ CfgChange
    \/ CfgEnable
    \/ CfgConnect
    \/ CfgDisable
    \/ CfgPoll
    \/ CfgTick

SpecCfg == Init /\ [][NextCfg]_vars

----------------------------------------------------------------------------
(* SpecConc: requests served concurrently.  The host runs every hook call   *)
(* in a goroutine of its own and the handlers take no lock around their     *)
(* store calls, so between two store calls of one request any store call   *)
(* of another may happen; one store call (KV Get / Set / Delete) is atomic. *)
(* A request in flight is [o, seen, rd, k]: its operation, the entries it   *)
(* has read (as they were when read, on the keys rd) and the number of      *)
(* store calls it has made.  No handler reads a key twice or after writing  *)
(* it, so what it does next is what the handler does on the store it has    *)
(* seen.                                                                    *)

MaxBatches == 2     \* groups of concurrent requests in one behaviour

\* the operations served concurrently, for user u1
ConcOps ==
    <<[kind |-> "Register", user |-> "u1", email |-> "a@x"],
      [kind |-> "Register", user |-> "u1", email |-> "b@x"],
      [kind |-> "Clear", user |-> "u1"],
      [kind |-> "Callback", in |-> CallbackInput(AllWell, "a@x", LongLived)],
      [kind |-> "Status", r |-> [header |-> "u1", path |-> "u1"], up |-> PlayingPlaylist],
      [kind |-> "Status", r |-> [header |-> "u1", path |-> "u1"],
       up |-> [PlayingPlaylist EXCEPT !.player = "idle"]]>>

\* ExecuteCommand's answer as a response
CommandResponse(r) ==
    [kv |-> r.kv, tr |-> r.tr, resp |-> Text(IF r.err = NoErr THEN 200 ELSE 500, r.text)]

\* the handler of an operation, run from its first to its last statement
Run(o, store) ==
    CASE o.kind = "Register" ->
           CommandResponse(executeSpotifyCommand([kv |-> store, tr |-> <<>>], auth, o.user,
                                                 <<"enable", o.email>>, {}))
      [] o.kind = "Clear" ->
           CommandResponse(executeSpotifyCommand([kv |-> store, tr |-> <<>>], auth, o.user,
                                                 <<"disable">>, {}))
      [] o.kind = "Callback" ->
           handleSpotifyCallback([kv |-> store, tr |-> <<>>], auth, o.in, {})
      [] o.kind = "Status" ->
           handleStatus([kv |-> store, tr |-> <<>>], auth, o.r, o.up, {})

\* the store calls among a handler's events, in program order
StoreCalls(tr) == SelectSeq(tr, LAMBDA e : e.ev \in {"kvget", "kvset", "kvdelete"})

NewProc(o) == [o |-> o, seen |-> [k \in Keys |-> Absent], rd |-> {}, k |-> 0]

\* the store as the request has seen it
View(p) == [k \in Keys |-> IF k \in p.rd THEN p.seen[k] ELSE kv[k]]

Exec(p) == Run(p.o, View(p))

\* the request has made its last store call; its response follows
Finished(p) == p.k = Len(StoreCalls(Exec(p).tr))

AllDone ==
    /\ inflight.procs # <<>>
    /\ \A i \in DOMAIN inflight.procs : Finished(inflight.procs[i])

\* a store on which the first value written under a key stays
Overwrite_KeepFirst(store, key, entry) ==
    IF store[key] # Absent THEN store ELSE [store EXCEPT ![key] = entry]

\* KV Set / Delete on the shared store: the entry is replaced
Overwrite(store, key, entry) == [store EXCEPT ![key] = entry]

\* one or two requests arrive
Launch(os) ==
    /\ inflight.procs = <<>>
    /\ inflight.launched < MaxBatches
    /\ inflight' = [base |-> kv, procs |-> [i \in DOMAIN os |-> NewProc(os[i])],
                    last |-> [k \in Keys |-> 0], launched |-> inflight.launched + 1]
    /\ op' = [name |-> "Launch"]
    /\ ret' = [err |-> NoErr]
    /\ trace' = <<>>
    /\ UNCHANGED <<kv, auth, configuration, now>>

\* request i makes its next store call
Step(i) ==
    /\ i \in DOMAIN inflight.procs
    /\ \E p \in {inflight.procs[i]} : \E x \in {Exec(p)} :
         /\ p.k < Len(StoreCalls(x.tr))
         /\ \E e \in {StoreCalls(x.tr)[p.k + 1]} :
              IF e.ev = "kvget"
              THEN /\ inflight' = [inflight EXCEPT !.procs[i] =
                                      [p EXCEPT !.seen[e.key] = kv[e.key],
                                                !.rd = @ \cup {e.key}, !.k = @ + 1]]
                   /\ kv' = kv
              ELSE /\ kv' = Overwrite(kv, e.key, x.kv[e.key])
                   /\ inflight' = [inflight EXCEPT !.procs[i].k = @ + 1, !.last[e.key] = i]
    /\ op' = [name |-> "Step"]
    /\ ret' = [err |-> NoErr]
    /\ trace' = <<>>
    /\ UNCHANGED <<auth, configuration, now>>

\* all responses are out
Retire ==
    /\ AllDone
    /\ inflight' = [Idle EXCEPT !.launched = inflight.launched]
    /\ op' = [name |-> "Retire"]
    /\ ret' = [err |-> NoErr]
    /\ trace' = <<>>
    /\ UNCHANGED <<kv, auth, configuration, now>>

ConcConfigChange ==
    /\ inflight.procs = <<>>
    /\ \E c \in {[ClientID |-> "id", ClientSecret |-> "secret"]} : OnConfigurationChange(c)
ConcEnable == inflight.procs = <<>> /\ Register("u1", "a@x", {})
ConcConnect ==
    /\ inflight.procs = <<>>
    /\ \E d \in ExpiresIn : Callback(CallbackInput(AllWell, "a@x", d), {})
ConcLaunch ==
    \E i \in DOMAIN ConcOps, j \in DOMAIN ConcOps :
        i <= j /\ Launch(<<ConcOps[i], ConcOps[j]>>)
ConcLaunchOne == \E i \in DOMAIN ConcOps : Launch(<<ConcOps[i]>>)
ConcStep == \E i \in {1, 2} : Step(i)
ConcRetire == Retire

NextConc ==
    \/ ConcConfigChange
    \/ ConcEnable
    \/ ConcConnect
    \/ ConcLaunch
    \/ ConcLaunchOne
    \/ ConcStep
    \/ ConcRetire

SpecConc == Init /\ [][NextConc]_vars

----------------------------------------------------------------------------
(* The identity mapping as its callers read it from the current store.      *)

UserOf(email) == GetUserIDByEmail(Start, email, {})
EmailOf(userID) == GetEmailByUserID(Start, userID, {})

\* C1: after any sequence of successful Register and Clear calls the mapping
\* is symmetric: looking up e yields u exactly when looking up u yields e.
C1_MappingSymmetric ==
    \A u \in Users, e \in Emails :
        (UserOf(e).err = NoErr /\ UserOf(e).val = u)
            <=> (EmailOf(u).err = NoErr /\ EmailOf(u).val = e)

\* C6: right after a successful Register(userId, email) both lookups succeed
\* and return the other half of the pair.
C6_RegisterThenLookup ==
    (op.name = "Register" /\ ret.err = NoErr) =>
        /\ UserOf(op.email).err = NoErr /\ UserOf(op.email).val = op.user
        /\ EmailOf(op.user).err = NoErr /\ EmailOf(op.user).val = op.email

\* a successful Register that replaced the user's earlier email
C6_Witness ==
    /\ op.name = "Register" /\ ret.err = NoErr
    /\ Cardinality(op.changed) = 2
    /\ \E e \in Emails : e # op.email /\ UserOf(e).val = op.user

\* C7: a lookup of a key that is absent from the store fails with an error.
C7_LookupNotFound ==
    /\ (op.name = "LookupUserByEmail" /\ kv[EmailKey(op.email)] = Absent) => ret.err # NoErr
    /\ (op.name = "LookupEmailByUser" /\ kv[UidKey(op.user)] = Absent) => ret.err # NoErr

\* C8: a Register that returns an error has changed neither direction.
C8_RegisterAtomic ==
    (op.name = "Register" /\ ret.err # NoErr) => op.changed = {}

\* C9: after Clear(userId) the user's uid entry, the email entry of the email
\* the user had registered, the token and the cached status are all absent.
C9_ClearRemovesAll ==
    op.name = "Clear" =>
        /\ kv[UidKey(op.user)] = Absent
        /\ op.had # "" => kv[EmailKey(op.had)] = Absent
        /\ kv[TokenKey(op.user)] = Absent
        /\ kv[StatusKey(op.user)] = Absent

\* C10: the callback stores a token under U only if the account's email maps
\* to U and U maps back to it; with no mapped user, or with the directions
\* disagreeing, it is rejected and leaves the store unchanged.
C10_CallbackGuard ==
    op.name = "Callback" =>
        /\ \A u \in UserIds : TokenKey(u) \in op.changed =>
               /\ kv[EmailKey(op.acct)].data = StringToBytes(u)
               /\ kv[UidKey(u)].data = StringToBytes(op.acct)
        /\ (\/ kv[EmailKey(op.acct)] = Absent
            \/ kv[UidKey(BytesToString(kv[EmailKey(op.acct)].data))].data
                   # StringToBytes(op.acct))
           => (ret.code # 200 /\ op.changed = {})

----------------------------------------------------------------------------
(* The status endpoint.                                                     *)

StoreEvents == {"kvget", "kvget-failed", "kvset", "kvset-failed", "kvdelete", "kvdelete-failed"}
Events == {trace[i] : i \in DOMAIN trace}
TokenAccesses == {e \in Events : e.ev \in StoreEvents /\ e.key[1] = "token-"}
UpstreamCalls == {e \in Events : e.ev = "upstream"}

\* the token stored under a user in the current store, None when there is none
StoredToken(userID) ==
    IF Len(kv[TokenKey(userID)].data) = 0 THEN None
    ELSE Some(UnmarshalToken(kv[TokenKey(userID)].data))

\* C2: no output of the plugin carries token material.  Responses and cached
\* status entries are built from Status records and fixed texts only, so the
\* outputs that can carry it are the log records.
C2_NoTokenInOutputs ==
    \A e \in Events : e.ev = "log" => e.secret = None

\* C3: while serving a status request only the token key of the requesting
\* user is accessed, and every upstream call carries the token that is stored
\* under the requesting user (as read at the start, or as refreshed).
C3_OwnTokenOnly ==
    op.name = "Status" =>
        /\ \A e \in TokenAccesses : e.key[2] = op.user
        /\ \A e \in UpstreamCalls :
               \/ Len(op.held) > 0 /\ e.tok = Some(UnmarshalToken(op.held))
               \/ e.tok # None /\ e.tok = StoredToken(op.user)

\* a request by one user for another user's status, the other user holding a
\* token, that refreshed the requester's token and called upstream
C3_Witness ==
    /\ op.name = "Status" /\ op.user # op.target
    /\ StoredToken(op.target) # None
    /\ {e.call : e \in UpstreamCalls} = {"RefreshToken", "PlayerState", "GetPlaylist"}
    /\ TokenKey(op.user) \in op.changed

\* C4: a request for another user's status reads no token, calls nothing
\* upstream, writes nothing, and with nothing cached returns no status.
C4_ThirdPartyReadOnly ==
    (op.name = "Status" /\ op.user # op.target) =>
        /\ TokenAccesses = {}
        /\ UpstreamCalls = {}
        /\ op.changed = {}
        /\ \A e \in Events : e.ev \notin {"kvset", "kvset-failed", "kvdelete", "kvdelete-failed"}
        /\ Len(kv[StatusKey(op.target)].data) = 0 => ret.status = None

\* C5: a successful request by A for B's status returns the entry cached
\* under B.
C5_ReturnsTargetStatus ==
    (/\ op.name = "Status" /\ op.user # op.target /\ ret.code = 200
     /\ Len(kv[StatusKey(op.target)].data) > 0)
        => ret.status = Some(UnmarshalStatus(kv[StatusKey(op.target)].data))

----------------------------------------------------------------------------
(* Status resolution.                                                       *)

\* what a read of a store entry yields now: its data until its expiry
LiveData(e) == IF e.exp = 0 \/ now < e.exp THEN e.data ELSE NoBytes

FailedReads == {e \in Events : e.ev = "kvget-failed"}
FailedCalls == {e \in Events : e.ev \in {"kvget-failed", "kvset-failed", "kvdelete-failed"}}
Writes == {e \in Events : e.ev \in {"kvset", "kvset-failed", "kvdelete", "kvdelete-failed"}}

\* the positions in the trace of the upstream calls of one kind
Calls(call) == {i \in DOMAIN trace : trace[i].ev = "upstream" /\ trace[i].call = call}

\* a status request that found a live entry for the requester
CacheHit == op.name = "Status" /\ Len(LiveData(op.entry)) > 0 /\ FailedReads = {}

\* a status request of a configured plugin that found no live entry
CacheMiss == op.name = "Status" /\ Len(LiveData(op.entry)) = 0 /\ auth # None

\* C11: on a cache hit the cached status is returned at once: no token is
\* read, nothing is called upstream or fetched, and nothing is written.
C11_CacheHitReturns ==
    CacheHit =>
        /\ ret.code = 200
        /\ ret.status = Some(UnmarshalStatus(op.entry.data))
        /\ TokenAccesses = {}
        /\ UpstreamCalls = {}
        /\ \A e \in Events : e.ev # "http.Get"
        /\ Writes = {}
        /\ op.changed = {}

\* a hit for a user who holds a token and is playing upstream by now, while
\* the cached status still says otherwise
C11_Witness ==
    /\ CacheHit
    /\ Len(op.held) > 0
    /\ op.up = PlayingPlaylist
    /\ ret.status # None /\ ret.status[1].IsPlaying = FALSE

\* C12: on a miss for a user with no stored token (plugin configured, no
\* store call failing) nothing is called upstream, the status returned has
\* IsConnected = FALSE, and it is cached with the configured expiry.
C12_NoTokenDisconnected ==
    (CacheMiss /\ Len(op.held) = 0 /\ FailedCalls = {}) =>
        /\ UpstreamCalls = {}
        /\ ret.code = 200
        /\ ret.status # None /\ ret.status[1].IsConnected = FALSE
        /\ kv[StatusKey(op.user)] =
               [data |-> MarshalStatus(ret.status[1]),
                exp |-> now + GetStatusCacheDurationMinutes * 60]

\* a miss of a registered user without a token that wrote the cache entry
C12_Witness ==
    /\ CacheMiss /\ Len(op.held) = 0 /\ FailedCalls = {}
    /\ Len(kv[UidKey(op.user)].data) > 0
    /\ StatusKey(op.user) \in op.changed

\* C13: with a stored token and upstream reporting "not playing", the status
\* cached and returned is {IsConnected: TRUE, IsPlaying: FALSE}.
C13_NotPlayingConnected ==
    (/\ CacheMiss /\ Len(op.held) > 0 /\ FailedCalls = {}
     /\ op.up.player = "idle" /\ Calls("PlayerState") # {})
        => /\ ret.code = 200
           /\ ret.status = Some(Status(TRUE, FALSE, <<>>, "", <<>>))
           /\ kv[StatusKey(op.user)].data = MarshalStatus(Status(TRUE, FALSE, <<>>, "", <<>>))

\* C14: a resolution that read a stored token makes one refresh call when
\* expiry - now < 5m30s and none otherwise (none at exactly 5m30s), and the
\* refresh call precedes the current-playback call.
C14_RefreshIffExpiring ==
    (CacheMiss /\ Len(op.held) > 0 /\ FailedReads = {}) =>
        /\ Cardinality(Calls("RefreshToken")) =
               IF UnmarshalToken(op.held).exp - now < RefreshWindow THEN 1 ELSE 0
        /\ \A i \in Calls("RefreshToken"), j \in Calls("PlayerState") : i < j

\* a resolution with a token that expires in exactly 5m30s: the playback call
\* is made and no refresh call
C14_Witness ==
    /\ CacheMiss /\ Len(op.held) > 0 /\ FailedReads = {}
    /\ UnmarshalToken(op.held).exp - now = RefreshWindow
    /\ Calls("PlayerState") # {}
    /\ Calls("RefreshToken") = {}

\* C15: when the refresh fails, no other upstream call is made, the request
\* fails, and neither the token nor the status cache is written.
C15_RefreshFailureTerminal ==
    (op.name = "Status" /\ Calls("RefreshToken") # {} /\ op.up.refresh = "err") =>
        /\ {e.call : e \in UpstreamCalls} = {"RefreshToken"}
        /\ ret.code # 200
        /\ ret.status = None
        /\ Writes = {}
        /\ op.changed = {}

\* a failed refresh for a user who is playing upstream
C15_Witness ==
    /\ op.name = "Status" /\ Calls("RefreshToken") # {} /\ op.up.refresh = "err"
    /\ op.up.player = "playing"
    /\ ret.code = 500

\* C16: when only the write of the resolved status to the cache fails, the
\* caller still receives the resolved status.
C16_CacheWriteBestEffort ==
    (op.name = "Status"
     /\ \E e \in Events : e.ev = "kvset-failed" /\ e.key[1] = "cached-status-")
        => (ret.code = 200 /\ ret.status # None)

----------------------------------------------------------------------------
(* The status cache and the token store over time.                          *)

\* C17: storing a nil status leaves a negative entry with an expiry in the
\* future, which a later read finds.
C17_NegativeEntry ==
    (op.name = "PutStatus" /\ op.status = None /\ ret.err = NoErr) =>
        /\ kv[StatusKey(op.user)] # Absent
        /\ kv[StatusKey(op.user)].exp > now

C19_RefreshInvalidates ==
    op.name = "Refresh" => Len(LiveData(kv[StatusKey(op.user)])) = 0

\* C20: GetToken returns an error exactly when the store read failed, and
\* otherwise no token when none is stored and the stored token when one is.
C20_NoTokenVsError ==
    op.name = "LookupToken" =>
        /\ (ret.err # NoErr) <=> (FailedReads # {})
        /\ ret.err # NoErr => ret.tok = None
        /\ ret.err = NoErr => ret.tok = StoredToken(op.user)

\* a failed read of the token of a user who holds one
C20_Witness ==
    /\ op.name = "LookupToken"
    /\ FailedReads # {}
    /\ ret.err # NoErr
    /\ StoredToken(op.user) # None

----------------------------------------------------------------------------
(* The token store and the context-name cache.                              *)

\* C21: storing a token overwrites: a read after a successful store returns
\* the token just stored; storing nil fails and leaves the store unchanged.
C21_PutTokenOverwrites ==
    op.name = "PutToken" =>
        /\ op.token = None =>
               /\ ret.err = "cannot store nil token"
               /\ op.changed = {}
               /\ Writes = {}
               /\ kv[TokenKey(op.user)].data = op.held
        /\ (op.token # None /\ ret.err = NoErr) =>
               /\ GetToken(Start, op.user, {}).err = NoErr
               /\ GetToken(Start, op.user, {}).tok = op.token

\* a nil token offered for a user who holds a token
C21_Witness ==
    /\ op.name = "PutToken"
    /\ op.token = None
    /\ Len(op.held) > 0

\* C23: a stored context name has no expiry and is what a read returns, at
\* any time; a second store under the same (type, id) replaces the first.
C23_ContextNameRoundTrip ==
    /\ \A t \in ContextTypes, i \in ContextIds : kv[ContextKey(t, i)].exp = 0
    /\ (op.name = "PutContextName" /\ ret.err = NoErr) =>
           /\ GetContextName(Start, op.type, op.id, {}).err = NoErr
           /\ GetContextName(Start, op.type, op.id, {}).name = op.cname
    /\ (op.name = "LookupContextName" /\ ret.err = NoErr) =>
           ret.name = kv[ContextKey(op.type, op.id)].data

\* a second store, after time has passed, of a different name
C23_Witness ==
    /\ op.name = "PutContextName" /\ ret.err = NoErr
    /\ Len(op.prev) > 0 /\ op.prev # op.cname
    /\ now > 0

----------------------------------------------------------------------------
(* Context names.                                                           *)

MetadataCalls ==
    Calls("GetArtist") \cup Calls("GetPlaylist") \cup Calls("GetAlbum") \cup Calls("GetShow")
PageFetches == {i \in DOMAIN trace : trace[i].ev = "http.Get"}
CacheWrites ==
    {i \in DOMAIN trace : /\ trace[i].ev \in {"kvset", "kvset-failed"}
                          /\ trace[i].key[1] = "cached-status-"}
TokenWrites ==
    {i \in DOMAIN trace : /\ trace[i].ev \in {"kvset", "kvset-failed"}
                          /\ trace[i].key[1] = "token-"}

\* a resolution, no store call failing, that found the user playing
ResolvedPlaying ==
    /\ CacheMiss /\ Len(op.held) > 0 /\ FailedCalls = {}
    /\ op.up.player = "playing" /\ Calls("PlayerState") # {}

\* the context type with its first letter in upper case
Capital(type) ==
    CASE type = Artist -> <<"A">> \o Tail(type)
      [] type = Playlist -> <<"P">> \o Tail(type)
      [] type = Album -> <<"A">> \o Tail(type)
      [] type = Show -> <<"S">> \o Tail(type)

\* the name the type's extraction rule takes from the metadata answer: the
\* entity's name, for an album followed by " - " and its first artist's name
MetadataName(up) ==
    IF up.type = Album THEN up.name \o <<" - ">> \o up.artist ELSE up.name

\* C22: playing a context of one of the four types with no cached name, the
\* metadata call succeeding with name n: the status is playing, of the
\* capitalised type and named n, and the context-name cache then holds n.
C22_ResolvesAndCachesName ==
    (/\ ResolvedPlaying
     /\ op.up.type \in {Artist, Playlist, Album, Show} /\ Len(op.up.uri) >= 3
     /\ Len(op.ctx) = 0 /\ op.up.meta = "ok")
        => /\ ret.code = 200
           /\ ret.status = Some(Status(TRUE, TRUE, Capital(op.up.type), op.up.url,
                                        MetadataName(op.up)))
           /\ kv[ContextKey(op.up.type, op.up.uri[3])].data = MetadataName(op.up)

\* an album resolved and cached for the first time
C22_Witness ==
    /\ ResolvedPlaying
    /\ op.up.type = Album /\ Len(op.ctx) = 0 /\ op.up.meta = "ok"
    /\ Len(kv[ContextKey(Album, op.up.uri[3])].data) > 0

\* C27: playlist metadata "not found", external URL set, and a page titled
\* "T | Spotify Playlist": the name in the returned status is T.
C27_FallbackTitle ==
    \A T \in Names :
        (/\ ResolvedPlaying
         /\ op.up.type = Playlist /\ Len(op.ctx) = 0
         /\ op.up.meta = "notfound" /\ op.up.url # ""
         /\ op.up.page = Some(TitledPage(T)))
            => /\ ret.code = 200
               /\ ret.status # None
               /\ ret.status[1].PlaybackName = T
               /\ PageFetches # {}

\* a status named from the page title
C27_Witness ==
    /\ ResolvedPlaying
    /\ op.up.meta = "notfound"
    /\ op.up.page = Some(TitledPage(<<"Chill Vibes">>))
    /\ ret.status # None /\ ret.status[1].PlaybackName = <<"Chill Vibes">>

\* C28: after a successful refresh the new token is stored before the
\* playback call, the playback and metadata calls carry the new token, and
\* when storing it fails no playback call is made.
C28_NewTokenUsed ==
    (op.name = "Status" /\ Calls("RefreshToken") # {} /\ op.up.refresh = "ok") =>
        /\ \A i \in Calls("PlayerState") : \E j \in TokenWrites : j < i
        /\ (\E j \in TokenWrites : trace[j].ev = "kvset-failed") => Calls("PlayerState") = {}
        /\ \A i \in Calls("PlayerState") \cup MetadataCalls :
               /\ trace[i].tok = StoredToken(op.user)
               /\ trace[i].tok # Some(UnmarshalToken(op.held))

\* C29: a status request makes at most one refresh, one playback call, one
\* metadata call, one page fetch and one status cache write, in this order.
C29_BoundedCalls ==
    op.name = "Status" =>
        /\ Cardinality(Calls("RefreshToken")) <= 1
        /\ Cardinality(Calls("PlayerState")) <= 1
        /\ Cardinality(MetadataCalls) <= 1
        /\ Cardinality(PageFetches) <= 1
        /\ Cardinality(CacheWrites) <= 1
        /\ \A i \in Calls("RefreshToken"), j \in Calls("PlayerState") : i < j
        /\ \A i \in Calls("PlayerState"), j \in MetadataCalls : i < j
        /\ \A i \in MetadataCalls, j \in PageFetches : i < j
        /\ \A i \in Calls("PlayerState") \cup MetadataCalls \cup PageFetches,
              j \in CacheWrites : i < j

\* the longest resolution: refresh, playback, metadata, page fetch, cache write
C29_Witness ==
    /\ op.name = "Status"
    /\ Calls("RefreshToken") # {} /\ Calls("PlayerState") # {}
    /\ MetadataCalls # {} /\ PageFetches # {} /\ CacheWrites # {}

\* C30: every status request ends in one outcome: a status, or an error.
C30_OneOutcome ==
    op.name = "Status" =>
        \/ ret.code = 200 /\ ret.status # None
        \/ ret.code = 500 /\ ret.status = None

----------------------------------------------------------------------------
(* Configuration.                                                           *)

\* no authenticator: no client credentials have been loaded into the plugin
NotConfigured == auth = None

\* C26: while no client credentials are loaded, a status resolution (a
\* request not answered from the cache) and an OAuth callback return an
\* error: no token is read, nothing is called upstream, nothing is written.
C26_FailsClosed ==
    (NotConfigured /\ (op.name = "Callback" \/ (op.name = "Status" /\ ~CacheHit))) =>
        /\ ret.code = 500
        /\ TokenAccesses = {}
        /\ UpstreamCalls = {}
        /\ PageFetches = {}
        /\ Writes = {}
        /\ op.changed = {}

\* an unconfigured plugin refuses to resolve for a user whose token is stored
C26_Witness ==
    /\ NotConfigured
    /\ op.name = "Status" /\ ~CacheHit
    /\ Len(op.held) > 0 /\ op.up.player = "playing"
    /\ ret.code = 500

----------------------------------------------------------------------------
(* Concurrent requests.                                                     *)

\* the store after the handlers of o1 and o2 ran one after the other
Serial(store, o1, o2) == Run(o2, Run(o1, store).kv).kv

\* the stores the serial orders of the requests in flight lead to
SerialResults ==
    IF Len(inflight.procs) = 1
    THEN {Run(inflight.procs[1].o, inflight.base).kv}
    ELSE {Serial(inflight.base, inflight.procs[1].o, inflight.procs[2].o),
          Serial(inflight.base, inflight.procs[2].o, inflight.procs[1].o)}

\* two status requests of a configured plugin that arrived when the user had
\* no live cached status
TwoResolutions ==
    /\ auth # None
    /\ Len(inflight.procs) = 2
    /\ \A i \in {1, 2} : inflight.procs[i].o.kind = "Status"
    /\ Len(LiveData(inflight.base[StatusKey("u1")])) = 0

\* the request refreshed the token
Refreshed(p) ==
    \E n \in DOMAIN Exec(p).tr :
        Exec(p).tr[n].ev = "upstream" /\ Exec(p).tr[n].call = "RefreshToken"

\* C24: two concurrent resolutions for one user from a cold status cache:
\* under every interleaving a request that has not finished can take its
\* next step, both end with a status, and the cached status and the stored
\* token are those written last.
C24_ConcurrentResolutions ==
    TwoResolutions =>
        /\ \A i \in {1, 2} : ~Finished(inflight.procs[i]) => ENABLED Step(i)
        /\ AllDone =>
              /\ \A i \in {1, 2} : /\ Exec(inflight.procs[i]).resp.code = 200
                                   /\ Exec(inflight.procs[i]).resp.status # None
              /\ inflight.last[StatusKey("u1")] # 0
              /\ \A key \in {StatusKey("u1"), TokenKey("u1")} :
                    inflight.last[key] # 0 =>
                        kv[key] = Exec(inflight.procs[inflight.last[key]]).kv[key]

\* both requests refreshed the token, their answers differ, and the first
\* request's write came last
C24_Witness ==
    /\ TwoResolutions /\ AllDone
    /\ \A i \in {1, 2} : Refreshed(inflight.procs[i])
    /\ inflight.procs[1].o # inflight.procs[2].o
    /\ inflight.last[StatusKey("u1")] = 1
    /\ inflight.last[TokenKey("u1")] = 2

\* C25: whatever the interleaving of concurrent Register, Clear, callback
\* and resolution requests, the store they leave is the store some serial
\* order of them leaves.
C25_Serializable == AllDone => kv \in SerialResults

----------------------------------------------------------------------------
(* Context names: cache hits, failures and fallbacks.                       *)

ContextWrites ==
    {i \in DOMAIN trace : /\ trace[i].ev \in {"kvset", "kvset-failed", "kvdelete"}
                          /\ trace[i].key[1] = "context-"}

\* a resolution that found the user playing and got to the context's name
ReachedName ==
    /\ CacheMiss /\ Len(op.held) > 0
    /\ op.up.player = "playing" /\ Calls("PlayerState") # {}
    /\ Len(op.up.uri) >= 3 /\ op.up.type # <<>>

\* C31: a non-empty cached name for the playing context is the name used: no
\* metadata call, no page fetch, and the context-name entry is not rewritten.
C31_ContextNameHit ==
    (ReachedName /\ FailedCalls = {} /\ Len(op.ctx) > 0) =>
        /\ ret.code = 200 /\ ret.status # None
        /\ ret.status[1].PlaybackName = op.ctx
        /\ MetadataCalls = {} /\ PageFetches = {}
        /\ ContextWrites = {}
        /\ kv[ContextKey(op.up.type, op.up.uri[3])].data = op.ctx

\* the cached name is used although upstream would now give another one
C31_Witness ==
    /\ ReachedName /\ FailedCalls = {}
    /\ op.ctx = <<"Chill Vibes">> /\ op.up.meta = "ok" /\ op.up.name = <<"Focus Mix">>
    /\ ret.status # None /\ ret.status[1].PlaybackName = <<"Chill Vibes">>

\* the store the request started from, when its context-name write failed
StoreBefore ==
    [kv EXCEPT ![StatusKey(op.user)] = op.entry,
               ![TokenKey(op.user)] = [data |-> op.held, exp |-> 0]]

FailedContextWrite ==
    /\ ReachedName
    /\ FailedCalls # {}
    /\ \A e \in FailedCalls : e.ev = "kvset-failed" /\ e.key[1] = "context-"

\* C32: a failed write of a freshly resolved name is logged and nothing
\* more: the response is the one the request gets when the write succeeds.
C32_NameWriteBestEffort ==
    FailedContextWrite =>
        /\ ret = handleStatus([kv |-> StoreBefore, tr |-> <<>>], auth,
                              [header |-> op.user, path |-> op.target], op.up, {}).resp
        /\ ret.code = 200
        /\ \E e \in Events : e.ev = "log" /\ e.msg = "Failed to cache context name"

\* an album's name could not be cached and the status carries it all the same
C32_Witness ==
    /\ FailedContextWrite
    /\ op.up.type = Album
    /\ ret.status # None /\ ret.status[1].PlaybackName = MetadataName(op.up)
    /\ Len(kv[ContextKey(Album, op.up.uri[3])].data) = 0

\* the one case of the fallback: playlist, "Resource not found", URL set
FallbackCase(up) == up.type = Playlist /\ up.meta = "notfound" /\ up.url # ""

\* C33: the public page is fetched exactly when the playlist metadata call
\* failed with "Resource not found" and the external URL is set; every other
\* metadata failure ends the resolution with an error and without a fetch.
C33_FallbackOnlyWhen ==
    op.name = "Status" =>
        /\ PageFetches # {} <=> (MetadataCalls # {} /\ FallbackCase(op.up))
        /\ (MetadataCalls # {} /\ op.up.meta # "ok" /\ ~FallbackCase(op.up)) =>
              /\ ret.code = 500 /\ ret.status = None
              /\ CacheWrites = {}

\* an artist that upstream does not find: no page is fetched
C33_Witness ==
    /\ op.name = "Status" /\ MetadataCalls # {}
    /\ op.up.type = Artist /\ op.up.meta = "notfound" /\ op.up.url # ""
    /\ PageFetches = {} /\ ret.code = 500

\* a status that says playing and names nothing
Nameless(st) == st # None /\ st[1].IsPlaying /\ st[1].PlaybackName = <<>>

\* C34: when the name cannot be resolved the resolution is aborted: a status
\* that is playing with an empty name is neither returned nor cached.
C34_NoNamelessStatus ==
    op.name = "Status" =>
        /\ ~Nameless(ret.status)
        /\ Len(kv[StatusKey(op.user)].data) > 0 =>
              ~Nameless(Some(UnmarshalStatus(kv[StatusKey(op.user)].data)))

\* C35: a playing user whose context is missing or malformed gets a status
\* or an error; the handler does not crash.
C35_NoCrash ==
    (op.name = "Status" /\ Calls("PlayerState") # {} /\ op.up.player = "playing"
       /\ (Len(op.up.uri) < 3 \/ op.up.type = <<>>))
        => ret.code \in {200, 500}

----------------------------------------------------------------------------
(* Clearing, connecting and reconfiguring.                                  *)

\* C36: when a Clear and the requests in flight with it have all returned
\* (no callback among them), the user has no token, and a cached status, if
\* there is one, is that of a user who is not connected.
C36_ClearIsFinal ==
    (/\ AllDone
     /\ \E i \in DOMAIN inflight.procs : inflight.procs[i].o.kind = "Clear"
     /\ \A i \in DOMAIN inflight.procs : inflight.procs[i].o.kind \in {"Clear", "Status"})
        => /\ Len(kv[TokenKey("u1")].data) = 0
           /\ Len(kv[StatusKey("u1")].data) > 0 =>
                 UnmarshalStatus(kv[StatusKey("u1")].data) = NotConnected

\* C37: Clear(U) changes no entry of another user V: not V's email, token or
\* cached status, and not the entry of the email V is registered with.
C37_ClearTouchesOnlyOwn ==
    op.name = "Clear" =>
        \A V \in Users \ {op.user} :
            /\ {UidKey(V), TokenKey(V), StatusKey(V)} \cap op.changed = {}
            /\ Len(kv[UidKey(V)].data) > 0 =>
                  EmailKey(BytesToString(kv[UidKey(V)].data)) \notin op.changed

\* C38: the callback writes token-<user> and nothing else, so a status
\* {IsConnected: false} cached before is still the answer while it is live.
C38_CallbackKeepsStatus ==
    /\ op.name = "Callback" =>
          /\ \A k \in op.changed : k[1] = "token-"
          /\ \A e \in Writes : e.key[1] = "token-"
    /\ (CacheHit /\ Len(op.held) > 0
           /\ LiveData(op.entry) = MarshalStatus(NotConnected)) =>
          /\ ret.code = 200
          /\ ret.status = Some(NotConnected)
          /\ op.changed = {}

\* a connected user is still told "not connected" from the cache
C38_Witness ==
    /\ CacheHit /\ Len(op.held) > 0
    /\ LiveData(op.entry) = MarshalStatus(NotConnected)
    /\ ret.status = Some(NotConnected)

HasCredentials(c) == c # NilConfiguration /\ c.ClientID # "" /\ c.ClientSecret # ""

\* C39: the authenticator is there exactly when the active configuration has
\* both credentials; without them the callback and a resolution answer "not
\* configured".
C39_AuthFollowsConfiguration ==
    /\ auth # None <=> HasCredentials(configuration)
    /\ (~HasCredentials(configuration)
           /\ (op.name = "Callback" \/ (op.name = "Status" /\ ~CacheHit))) =>
          ret.code = 500

====
